---------------------------- MODULE Spec2Model ----------------------------
(***************************************************************************)
(* A model of ska_ser_devices.client_server: the bytestring marshallers    *)
(* (marshaller.py), the application-layer client and server                *)
(* (application.py) and the TCP transport (tcp.py).                        *)
(*                                                                         *)
(* Three specifications live in this module.                               *)
(*   MarshallerSpec  applies the marshallers, as pure functions, to        *)
(*                   payloads and to chunk sources drawn from bounded sets *)
(*   Spec            runs the TCP client sessions, the connections and the *)
(*                   TCP server of the reversal service of the tests       *)
(*   FairSpec        is Spec with the server thread and the callers        *)
(*                   blocked in recv scheduled fairly                      *)
(***************************************************************************)
EXTENDS Naturals, Sequences, FiniteSets, TLC

(***************************************************************************)
(* Bytes and bytestrings                                                   *)
(***************************************************************************)

\* b"\n", the sentinel of the tests
NL == 10

\* the byte values the marshaller inputs are drawn from
Byte == {NL, 65}

\* longest payload handed to marshall
MaxPayloadLen == 3

\* longest chunk a source delivers in one next()
MaxChunkLen == 2

\* most chunks a source delivers before it is exhausted
MaxChunks == 3

\* longest sentinel of a SentinelBytesMarshaller
MaxSentinelLen == 2

\* largest length of a FixedLengthBytesMarshaller
MaxLength == 2

SeqsUpTo(S, n) == UNION {[1..k -> S] : k \in 0..n}

NonEmptySeqsUpTo(S, n) == UNION {[1..k -> S] : k \in 1..n}

\* bytes.endswith(suffix)
EndsWith(b, suffix) ==
    /\ Len(b) >= Len(suffix)
    /\ SubSeq(b, Len(b) - Len(suffix) + 1, Len(b)) = suffix

\* bytes.removesuffix(suffix)
RemoveSuffix(b, suffix) ==
    IF Len(suffix) > 0 /\ EndsWith(b, suffix)
    THEN SubSeq(b, 1, Len(b) - Len(suffix))
    ELSE b

\* suffix in b (a contiguous sub-sequence)
Contains(b, s) ==
    \E i \in 1..(Len(b) + 1) :
        /\ i + Len(s) - 1 <= Len(b)
        /\ SubSeq(b, i, i + Len(s) - 1) = s

\* bytes(reversed(b)), the callback of the reversal server
Reverse(b) == [i \in 1..Len(b) |-> b[Len(b) + 1 - i]]

RECURSIVE Concat(_)
\* the bytes of a sequence of chunks, in delivery order
Concat(chunks) ==
    IF chunks = <<>> THEN <<>> ELSE Head(chunks) \o Concat(Tail(chunks))

RECURSIVE Splits(_)
\* every way of cutting a bytestring into non-empty chunks, kept in order
Splits(w) ==
    IF w = <<>>
    THEN {<<>>}
    ELSE UNION { { <<SubSeq(w, 1, k)>> \o rest :
                       rest \in Splits(SubSeq(w, k + 1, Len(w))) } :
                 k \in 1..Len(w) }

Payloads == SeqsUpTo(Byte, MaxPayloadLen)

Chunks == NonEmptySeqsUpTo(Byte, MaxChunkLen)

Sources == SeqsUpTo(Chunks, MaxChunks)

Sentinels == NonEmptySeqsUpTo(Byte, MaxSentinelLen)

Lengths == 1..MaxLength

(***************************************************************************)
(* marshaller.py: results                                                  *)
(***************************************************************************)

\* a returned value; consumed counts the next() calls that returned a chunk
Returned(payload, consumed) ==
    [status |-> "ok", payload |-> payload, consumed |-> consumed]

\* raise ValueError(...)
LengthMismatch(consumed) ==
    [status |-> "LengthMismatch", payload |-> <<>>, consumed |-> consumed]

\* StopIteration out of next(bytes_iterator)
EndOfStream(consumed) ==
    [status |-> "EndOfStream", payload |-> <<>>, consumed |-> consumed]

NotCalled == [status |-> "none", payload |-> <<>>, consumed |-> 0]

(***************************************************************************)
(* marshaller.py: SentinelBytesMarshaller                                  *)
(***************************************************************************)

SentinelMarshall(sentinel, payload) == Returned(payload \o sentinel, 0)

\* the loop test of unmarshall, negated: the sentinel has been received
SentinelSeen(sentinel, payload, more_bytes) ==
    EndsWith(more_bytes, sentinel)

SentinelResultUnstripped(sentinel, payload, consumed) ==
    Returned(payload, consumed)

\* the lines after the loop
SentinelResult(sentinel, payload, consumed) ==
    Returned(RemoveSuffix(payload, sentinel), consumed)

RECURSIVE SentinelLoopPartial(_, _, _, _)
SentinelLoopPartial(sentinel, source, payload, i) ==
    IF SentinelSeen(sentinel, payload, source[i])
    THEN SentinelResult(sentinel, payload, i)
    ELSE IF i = Len(source)
         THEN Returned(payload, i)
         ELSE SentinelLoopPartial(sentinel, source, payload \o source[i + 1], i + 1)

RECURSIVE SentinelLoop(_, _, _, _)
\* the state after the i-th chunk of source was appended to payload
SentinelLoop(sentinel, source, payload, i) ==
    IF SentinelSeen(sentinel, payload, source[i])
    THEN SentinelResult(sentinel, payload, i)
    ELSE IF i = Len(source)
         THEN EndOfStream(i)
         ELSE SentinelLoop(sentinel, source, payload \o source[i + 1], i + 1)

SentinelUnmarshall(sentinel, source) ==
    IF source = <<>>
    THEN EndOfStream(0)
    ELSE SentinelLoop(sentinel, source, source[1], 1)

(***************************************************************************)
(* marshaller.py: FixedLengthBytesMarshaller                               *)
(***************************************************************************)

FixedMarshallUnchecked(length, payload) == Returned(payload, 0)

FixedMarshall(length, payload) ==
    IF Len(payload) # length
    THEN LengthMismatch(0)
    ELSE Returned(payload, 0)

FixedCompleteOff(length, payload) == ~(Len(payload) <= length)

\* the loop test of unmarshall, negated: enough bytes have been received
FixedComplete(length, payload) == ~(Len(payload) < length)

FixedResultTruncating(length, payload, consumed) ==
    Returned(SubSeq(payload, 1, length), consumed)

\* the lines after the loop
FixedResult(length, payload, consumed) ==
    IF Len(payload) # length
    THEN LengthMismatch(consumed)
    ELSE Returned(payload, consumed)

RECURSIVE FixedLoopPartial(_, _, _, _)
FixedLoopPartial(length, source, payload, i) ==
    IF FixedComplete(length, payload)
    THEN FixedResult(length, payload, i)
    ELSE IF i = Len(source)
         THEN Returned(payload, i)
         ELSE FixedLoopPartial(length, source, payload \o source[i + 1], i + 1)

\* the chunk after the one that completed the payload is pulled and dropped
FixedLoopReadAhead(length, source, payload, i) ==
    IF FixedComplete(length, payload) /\ i < Len(source)
    THEN [FixedResult(length, payload, i) EXCEPT !.consumed = i + 1]
    ELSE FixedLoopPartial(length, source, payload, i)

RECURSIVE FixedLoop(_, _, _, _)
\* the state after the i-th chunk of source was appended to payload
FixedLoop(length, source, payload, i) ==
    IF FixedComplete(length, payload)
    THEN FixedResult(length, payload, i)
    ELSE IF i = Len(source)
         THEN EndOfStream(i)
         ELSE FixedLoop(length, source, payload \o source[i + 1], i + 1)

FixedUnmarshall(length, source) ==
    IF source = <<>>
    THEN EndOfStream(0)
    ELSE FixedLoop(length, source, source[1], 1)

Marshallers ==
    {[kind |-> "fixed", length |-> l, sentinel |-> <<>>] : l \in Lengths}
    \cup
    {[kind |-> "sentinel", length |-> 0, sentinel |-> s] : s \in Sentinels}

Marshall(m, payload) ==
    IF m.kind = "fixed"
    THEN FixedMarshall(m.length, payload)
    ELSE SentinelMarshall(m.sentinel, payload)

Unmarshall(m, source) ==
    IF m.kind = "fixed"
    THEN FixedUnmarshall(m.length, source)
    ELSE SentinelUnmarshall(m.sentinel, source)

(***************************************************************************)
(* application.py: ApplicationServer                                       *)
(***************************************************************************)

\* what the callback an ApplicationServer is built with does with a request
CallbackKinds == {"reverse", "selective", "failing"}

CallbackReturned(payload) == [status |-> "ok", payload |-> payload]

CallbackNone == [status |-> "None", payload |-> <<>>]

CallbackRaised == [status |-> "CallbackError", payload |-> <<>>]

\* the callback raised StopIteration, the exception next() raises at
\* end-of-stream
CallbackStopped == [status |-> "EndOfStream", payload |-> <<>>]

\* callback(request_payload): "reverse" answers every request, "selective"
\* answers the requests that start with byte 65 and returns None for the
\* others, "failing" raises, "stopping" answers the requests that start with
\* byte 65 and raises StopIteration for the others
Callback(kind, request) ==
    CASE kind = "reverse" -> CallbackReturned(Reverse(request))
      [] kind = "selective" ->
            IF request # <<>> /\ request[1] = 65
            THEN CallbackReturned(Reverse(request))
            ELSE CallbackNone
      [] kind = "failing" -> CallbackRaised
      [] kind = "stopping" ->
            IF request # <<>> /\ request[1] = 65
            THEN CallbackReturned(Reverse(request))
            ELSE CallbackStopped

\* what one call of the ApplicationServer came to: the bytes returned or the
\* exception, the chunks pulled, how often the callback and the response
\* marshaller were invoked, and the payload the callback was given
Served(status, bytes, consumed, callbacks, marshalls, delivered) ==
    [status |-> status, bytes |-> bytes, consumed |-> consumed,
     callbacks |-> callbacks, marshalls |-> marshalls, delivered |-> delivered]

NotServed == Served("none", <<>>, 0, 0, 0, <<>>)

\* the response marshaller is applied to None as to any payload
ApplicationServerRespondMarshallingNone(server, request_payload, consumed) ==
    LET response_payload == Callback(server.callback, request_payload)
        response_bytes == Marshall(server.response, response_payload.payload)
    IN  IF response_payload.status = "CallbackError"
        THEN Served("CallbackError", <<>>, consumed, 1, 0, <<request_payload>>)
        ELSE Served(response_bytes.status, response_bytes.payload, consumed,
                    1, 1, <<request_payload>>)

\* a failing callback is called once more and its failure then passed over
ApplicationServerRespondRetrying(server, request_payload, consumed) ==
    LET response_payload == Callback(server.callback, request_payload)
        response_bytes == Marshall(server.response, response_payload.payload)
    IN  IF response_payload.status = "CallbackError"
        THEN Served("None", <<>>, consumed, 2, 0,
                    <<request_payload, request_payload>>)
        ELSE IF response_payload.status = "None"
        THEN Served("None", <<>>, consumed, 1, 0, <<request_payload>>)
        ELSE Served(response_bytes.status, response_bytes.payload, consumed,
                    1, 1, <<request_payload>>)

\* ApplicationServer.__call__ once the request is unmarshalled
ApplicationServerRespond(server, request_payload, consumed) ==
    LET response_payload == Callback(server.callback, request_payload)
        response_bytes == Marshall(server.response, response_payload.payload)
    IN  IF response_payload.status \in {"CallbackError", "EndOfStream"}
        THEN Served(response_payload.status, <<>>, consumed, 1, 0,
                    <<request_payload>>)
        ELSE IF response_payload.status = "None"
        THEN Served("None", <<>>, consumed, 1, 0, <<request_payload>>)
        ELSE Served(response_bytes.status, response_bytes.payload, consumed,
                    1, 1, <<request_payload>>)

\* the bytes pulled before the source ended are handed on as the request
ApplicationServerDeliveringPartial(server, source) ==
    LET request_payload == Unmarshall(server.request, source)
    IN  IF request_payload.status = "EndOfStream"
        THEN ApplicationServerRespond(server, Concat(source), Len(source))
        ELSE IF request_payload.status # "ok"
        THEN Served(request_payload.status, <<>>, request_payload.consumed,
                    0, 0, <<>>)
        ELSE ApplicationServerRespond(server, request_payload.payload,
                                      request_payload.consumed)

\* ApplicationServer.__call__(bytes_iterator)
ApplicationServer(server, source) ==
    LET request_payload == Unmarshall(server.request, source)
    IN  IF request_payload.status # "ok"
        THEN Served(request_payload.status, <<>>, request_payload.consumed,
                    0, 0, <<>>)
        ELSE ApplicationServerRespond(server, request_payload.payload,
                                      request_payload.consumed)

(***************************************************************************)
(* State                                                                   *)
(***************************************************************************)

VARIABLES
    marshaller,   \* MarshallerSpec: the marshaller applied, kind and parameter
    mPhase,       \* "new", "marshalled", "ready" (a source is bound), "done"
    mPayload,     \* the payload handed to marshall
    mWire,        \* what marshall returned or raised
    mSource,      \* the chunks the source delivers before it is exhausted
    mOut          \* what unmarshall returned or raised

VARIABLES
    appServer,    \* ApplicationSpec: the ApplicationServer called, its two
                  \* marshallers and its callback
    aPhase,       \* "new", "ready" (a source is bound), "done"
    aSource,      \* the chunks the source delivers before it is exhausted
    aOut          \* what ApplicationServer.__call__ came to

VARIABLES
    uSent,        \* StreamSpec: all bytes the peer has sent on the connection
    uWire,        \* the bytes sent and not yet read
    uClosed,      \* the peer has closed the connection
    uChunks,      \* the chunks next() has handed out, in order
    uPayload      \* payload of the unmarshall call that pulls them

VARIABLES
    hWritten,     \* HandleSpec: all bytes handle passed to sendall
    hError        \* the exception that left handle and that the server reported

VARIABLES
    timeout,        \* TcpClient._timeout is set (TRUE) or None (FALSE)
    appSession,     \* ApplicationClient._session, NoSession for None
    tcpSession,     \* TcpClient._session, NoSession for None
    scopes,         \* sessions returned by __enter__ whose with block runs, innermost last
    exited,         \* sessions returned by __enter__ whose with block was left
    swallowed,      \* an exception of a with block was suppressed by __exit__
    sessionSocket,  \* per session: TcpClientSession._session_socket
    call,           \* per session: the send / send_receive call running or last made
    calls,          \* send / send_receive calls made so far, on any session
    op,             \* per session: the method of the call running or last made
    requested,      \* per session: requests written to the connection
    returned,       \* per session: responses returned by send_receive
    strict,         \* per session: every call so far was a send_receive that returned
    sentinelFree,   \* per session: no request written so far contains the sentinel
    c2s,            \* per connection: bytes written by the client, not yet read
    s2c,            \* per connection: bytes written by the server, not yet read
    conn,           \* per connection: the server's end
    backlog,        \* connections established and not yet accepted, oldest first
    serving,        \* the connection _TcpServerRequestHandler.handle runs on
    srvPayload,     \* payload of the unmarshall call running in the server
    payloadCallback,\* ApplicationServer._payload_callback of the server
    handled,        \* per connection: the requests handed to the callback
    written,        \* per connection: all bytes handle passed to sendall
    raised          \* per connection: the exception that ended handle

avars == <<appServer, aPhase, aSource, aOut>>

uvars == <<uSent, uWire, uClosed, uChunks, uPayload>>

hvars == <<hWritten, hError>>

mvars == <<marshaller, mPhase, mPayload, mWire, mSource, mOut, avars, uvars, hvars>>

clientVars == <<timeout, appSession, tcpSession, scopes, exited, swallowed>>

sessionVars == <<sessionSocket, call, calls, op, requested, returned, strict, sentinelFree>>

history == <<payloadCallback, handled, written, raised>>

serverVars == <<conn, backlog, serving, srvPayload, history>>

svars == <<clientVars, sessionVars, c2s, s2c, serverVars>>

vars == <<mvars, svars>>

(***************************************************************************)
(* The reversal service of tests/unit/client_server/test_client_server.py  *)
(***************************************************************************)

\* sessions one client opens
MaxSessions == 2

\* send / send_receive calls made, over all sessions
MaxCalls == 2

\* payload_length of the tests, scaled down
PayloadLength == 2

\* DEFAULT_BUFFER_SIZE, scaled down: most bytes one recv returns
BufferSize == 2

\* the sentinel of sentinel_marshaller
Sentinel == <<NL>>

NoSession == 0

Sessions == 1..MaxSessions

\* a request of the right length: bytes 65 but for byte x at position k
Marked(k, x) == [i \in 1..PayloadLength |-> IF i = k THEN x ELSE 65]

\* the requests the callers make: two free of the sentinel, one ending in it
Requests == {Marked(1, 66), Marked(PayloadLength, 66), Marked(PayloadLength, NL)}

\* a payload the request marshaller refuses
ShortPayload == [i \in 1..(PayloadLength - 1) |-> 65]

ClientPayloads == Requests \cup {ShortPayload}

Min(a, b) == IF a <= b THEN a ELSE b

\* raise ConnectionError("Session socket is closed.")
ConnectionError == [status |-> "ConnectionError", payload |-> <<>>, consumed |-> 0]

\* the timeout of recv is turned into the StopIteration of an empty read
TimeoutAsStopIteration == EndOfStream(0)

\* socket.timeout out of recv
Timeout == [status |-> "Timeout", payload |-> <<>>, consumed |-> 0]

\* OSError out of sendall: the peer has closed the connection
BrokenPipe == [status |-> "BrokenPipe", payload |-> <<>>, consumed |-> 0]

\* send returned (None)
Sent == [status |-> "sent", payload |-> <<>>, consumed |-> 0]

Idle(request, out) ==
    [pc |-> "idle", request |-> request, payload |-> <<>>, out |-> out]

Receiving(request, payload) ==
    [pc |-> "receiving", request |-> request, payload |-> payload, out |-> NotCalled]

\* the request marshaller passes a payload of any length on
RequestMarshallUnchecked(payload) == FixedMarshallUnchecked(PayloadLength, payload)

\* the marshallers the fixtures hand to ApplicationClient and ApplicationServer
RequestMarshall(payload) == FixedMarshall(PayloadLength, payload)

ResponseMarshall(payload) == SentinelMarshall(Sentinel, payload)

\* the ApplicationServer of the fixtures, with one callback or another
Service(kind) ==
    [request |-> [kind |-> "fixed", length |-> PayloadLength, sentinel |-> <<>>],
     response |-> [kind |-> "sentinel", length |-> 0, sentinel |-> Sentinel],
     callback |-> kind]

SInit ==
    /\ timeout \in BOOLEAN
    /\ appSession = NoSession
    /\ tcpSession = NoSession
    /\ scopes = <<>>
    /\ exited = {}
    /\ swallowed = FALSE
    /\ sessionSocket = [s \in Sessions |-> "unborn"]
    /\ call = [s \in Sessions |-> Idle(<<>>, NotCalled)]
    /\ calls = 0
    /\ op = [s \in Sessions |-> "none"]
    /\ requested = [s \in Sessions |-> 0]
    /\ returned = [s \in Sessions |-> 0]
    /\ strict = [s \in Sessions |-> TRUE]
    /\ sentinelFree = [s \in Sessions |-> TRUE]
    /\ c2s = [s \in Sessions |-> <<>>]
    /\ s2c = [s \in Sessions |-> <<>>]
    /\ conn = [s \in Sessions |-> "none"]
    /\ backlog = <<>>
    /\ serving = NoSession
    /\ srvPayload = <<>>
    /\ payloadCallback \in CallbackKinds
    /\ handled = [s \in Sessions |-> <<>>]
    /\ written = [s \in Sessions |-> <<>>]
    /\ raised = [s \in Sessions |-> "none"]

\* the variables of ApplicationSpec while it does not run
AQuiet ==
    /\ appServer = Service("reverse")
    /\ aPhase = "off"
    /\ aSource = <<>>
    /\ aOut = NotServed

\* the variables of StreamSpec while it does not run
UQuiet ==
    /\ uSent = <<>>
    /\ uWire = <<>>
    /\ uClosed = FALSE
    /\ uChunks = <<>>
    /\ uPayload = <<>>

\* the variables of HandleSpec while it does not run
HQuiet ==
    /\ hWritten = <<>>
    /\ hError = "none"

\* the marshaller variables while the service runs
MQuiet ==
    /\ marshaller = [kind |-> "none", length |-> 0, sentinel |-> <<>>]
    /\ mPhase = "off"
    /\ mPayload = <<>>
    /\ mWire = NotCalled
    /\ mSource = <<>>
    /\ mOut = NotCalled
    /\ AQuiet
    /\ UQuiet
    /\ HQuiet

(***************************************************************************)
(* tcp.py, application.py: the client                                      *)
(***************************************************************************)

Born == {s \in Sessions : sessionSocket[s] # "unborn"}

\* TcpClientSession.__init__: a socket, connected to the listening server
NewSession(s) ==
    /\ s \in Sessions \ Born
    /\ \A t \in Sessions \ Born : s <= t
    /\ sessionSocket' = [sessionSocket EXCEPT ![s] = "open"]
    /\ conn' = [conn EXCEPT ![s] = "queued"]
    /\ backlog' = Append(backlog, s)
    /\ appSession' = s
    /\ tcpSession' = s

\* ApplicationClient.connect, with TcpClient.connect
Connect ==
    /\ \E s \in Sessions : NewSession(s)
    /\ UNCHANGED <<timeout, scopes, exited, swallowed>>
    /\ UNCHANGED <<call, calls, op, requested, returned, strict, sentinelFree>>
    /\ UNCHANGED <<c2s, s2c, serving, srvPayload, history, mvars>>

\* ApplicationClient.__enter__
Enter ==
    /\ \E s \in Sessions :
        /\ NewSession(s)
        /\ scopes' = Append(scopes, s)
    /\ UNCHANGED <<timeout, exited, swallowed>>
    /\ UNCHANGED <<call, calls, op, requested, returned, strict, sentinelFree>>
    /\ UNCHANGED <<c2s, s2c, serving, srvPayload, history, mvars>>

\* close() calls socket.close() without looking at the socket: on a session
\* already closed the call fails
TcpCloseUnguarded(socket) == IF socket = "open" THEN "closed" ELSE "failed"

\* TcpClientSession.close: the socket after the call
TcpClose(socket) == IF socket = "open" THEN "closed" ELSE socket

\* the sessions of a client share one socket: closing one closes them all
SessionCloseAll(s) ==
    /\ sessionSocket' = [t \in Sessions |-> TcpClose(sessionSocket[t])]
    /\ s2c' = [t \in Sessions |-> <<>>]

\* ApplicationClientSession.close
SessionClose(s) ==
    /\ sessionSocket' = [sessionSocket EXCEPT ![s] = TcpClose(@)]
    /\ s2c' = [s2c EXCEPT ![s] = <<>>]

\* session.close(), called by the owner of the session between two calls
Close(s) ==
    /\ s \in Born
    /\ call[s].pc = "idle"
    /\ SessionClose(s)
    /\ UNCHANGED <<clientVars, call, calls, op, requested, returned, strict, sentinelFree>>
    /\ UNCHANGED <<c2s, serverVars, mvars>>

\* the value __exit__ returns: true suppresses the exception of the with block
ExitReturn(exception) == ~exception

\* __exit__ closes the session its with block was entered with
ExitSessionEntered == scopes[Len(scopes)]

\* the session __exit__ works on: self._session, the one connect() made last
ExitSession == appSession

\* ApplicationClient.__exit__, leaving the innermost with block
Exit(exception) ==
    /\ scopes # <<>>
    /\ call[scopes[Len(scopes)]].pc = "idle"
    /\ IF ExitSession # NoSession
       THEN /\ call[ExitSession].pc = "idle"
            /\ SessionClose(ExitSession)
            /\ appSession' = NoSession
       ELSE UNCHANGED <<sessionSocket, s2c, appSession>>
    /\ exited' = exited \cup {scopes[Len(scopes)]}
    /\ scopes' = SubSeq(scopes, 1, Len(scopes) - 1)
    /\ swallowed' = (swallowed \/ (exception /\ ExitReturn(exception)))
    /\ UNCHANGED <<timeout, tcpSession>>
    /\ UNCHANGED <<call, calls, op, requested, returned, strict, sentinelFree>>
    /\ UNCHANGED <<c2s, serverVars, mvars>>

TcpRequestUnguarded(socket) == FALSE

\* TcpClientSession.request: "if not self._session_socket"
TcpRequestRefused(socket) == socket # "open"

\* a call of session s may start
MayCall(s) ==
    /\ s \in Born
    /\ call[s].pc = "idle"
    /\ calls < MaxCalls

\* sendall(request) of TcpClientSession.request on an open socket: the bytes
\* reach the connection, or are lost when the server has closed its end
Written(s, bytes) ==
    IF conn[s] = "closed" THEN c2s[s] ELSE c2s[s] \o bytes

SendAwaits(request) == Receiving(request, <<>>)

\* ApplicationClientSession.send once the request is written: the call
\* returns
SendDone(request) == Idle(request, Sent)

\* ApplicationClientSession.send
Send(s) ==
    /\ MayCall(s)
    /\ calls' = calls + 1
    /\ op' = [op EXCEPT ![s] = "send"]
    /\ \E p \in ClientPayloads :
        LET request_bytes == RequestMarshall(p)
        IN  IF request_bytes.status # "ok"
            THEN /\ call' = [call EXCEPT ![s] = Idle(p, request_bytes)]
                 /\ UNCHANGED <<c2s, requested, strict, sentinelFree>>
            ELSE IF TcpRequestRefused(sessionSocket[s])
            THEN /\ call' = [call EXCEPT ![s] = Idle(p, ConnectionError)]
                 /\ UNCHANGED <<c2s, requested, strict, sentinelFree>>
            ELSE \/ /\ c2s' = [c2s EXCEPT ![s] = Written(s, request_bytes.payload)]
                    /\ call' = [call EXCEPT ![s] = SendDone(p)]
                    /\ requested' = [requested EXCEPT ![s] = @ + 1]
                    /\ strict' = [strict EXCEPT ![s] = FALSE]
                    /\ sentinelFree' =
                           [sentinelFree EXCEPT ![s] = @ /\ ~Contains(p, Sentinel)]
                 \/ /\ conn[s] = "closed"
                    /\ call' = [call EXCEPT ![s] = Idle(p, BrokenPipe)]
                    /\ strict' = [strict EXCEPT ![s] = FALSE]
                    /\ UNCHANGED <<c2s, requested, sentinelFree>>
    /\ UNCHANGED <<clientVars, sessionSocket, returned, s2c, serverVars, mvars>>

SendReceiveNoWait(request) == Idle(request, Sent)

\* ApplicationClientSession.send_receive once the request is written: the
\* call goes on to unmarshall the response
SendReceiveWritten(request) == Receiving(request, <<>>)

\* ApplicationClientSession.send_receive, up to the first next() of unmarshall
SendReceive(s) ==
    /\ MayCall(s)
    /\ calls' = calls + 1
    /\ op' = [op EXCEPT ![s] = "send_receive"]
    /\ \E p \in ClientPayloads :
        LET request_bytes == RequestMarshall(p)
        IN  IF request_bytes.status # "ok"
            THEN /\ call' = [call EXCEPT ![s] = Idle(p, request_bytes)]
                 /\ UNCHANGED <<c2s, requested, strict, sentinelFree>>
            ELSE IF TcpRequestRefused(sessionSocket[s])
            THEN /\ call' = [call EXCEPT ![s] = Idle(p, ConnectionError)]
                 /\ UNCHANGED <<c2s, requested, strict, sentinelFree>>
            ELSE \/ /\ c2s' = [c2s EXCEPT ![s] = Written(s, request_bytes.payload)]
                    /\ call' = [call EXCEPT ![s] = SendReceiveWritten(p)]
                    /\ requested' = [requested EXCEPT ![s] = @ + 1]
                    /\ sentinelFree' =
                           [sentinelFree EXCEPT ![s] = @ /\ ~Contains(p, Sentinel)]
                    /\ UNCHANGED strict
                 \/ /\ conn[s] = "closed"
                    /\ call' = [call EXCEPT ![s] = Idle(p, BrokenPipe)]
                    /\ strict' = [strict EXCEPT ![s] = FALSE]
                    /\ UNCHANGED <<c2s, requested, sentinelFree>>
    /\ UNCHANGED <<clientVars, sessionSocket, returned, s2c, serverVars, mvars>>

\* one next() of _TcpBytestringIterator on the client's socket that returns a
\* chunk, and the step of SentinelBytesMarshaller.unmarshall that takes it
ClientRecv(s) ==
    /\ s \in Born
    /\ call[s].pc = "receiving"
    /\ s2c[s] # <<>>
    /\ \E n \in 1..Min(BufferSize, Len(s2c[s])) :
        LET more_bytes == SubSeq(s2c[s], 1, n)
            payload == call[s].payload \o more_bytes
        IN  /\ s2c' = [s2c EXCEPT ![s] = SubSeq(@, n + 1, Len(@))]
            /\ IF SentinelSeen(Sentinel, payload, more_bytes)
               THEN /\ call' = [call EXCEPT ![s] =
                           Idle(@.request, SentinelResult(Sentinel, payload, 0))]
                    /\ returned' = [returned EXCEPT ![s] = @ + 1]
               ELSE /\ call' = [call EXCEPT ![s] = Receiving(@.request, payload)]
                    /\ UNCHANGED returned
    /\ UNCHANGED <<clientVars, sessionSocket, calls, op, requested, strict, sentinelFree>>
    /\ UNCHANGED <<c2s, serverVars, mvars>>

\* next() on the client's socket reads no bytes: the server closed its end
ClientEof(s) ==
    /\ s \in Born
    /\ call[s].pc = "receiving"
    /\ s2c[s] = <<>>
    /\ conn[s] = "closed"
    /\ call' = [call EXCEPT ![s] = Idle(@.request, EndOfStream(0))]
    /\ strict' = [strict EXCEPT ![s] = FALSE]
    /\ UNCHANGED <<clientVars, sessionSocket, calls, op, requested, returned, sentinelFree>>
    /\ UNCHANGED <<c2s, s2c, serverVars, mvars>>

\* recv on the client's socket times out: no byte arrived in time
ClientTimeout(s) ==
    /\ s \in Born
    /\ call[s].pc = "receiving"
    /\ timeout
    /\ call' = [call EXCEPT ![s] = Idle(@.request, Timeout)]
    /\ strict' = [strict EXCEPT ![s] = FALSE]
    /\ UNCHANGED <<clientVars, sessionSocket, calls, op, requested, returned, sentinelFree>>
    /\ UNCHANGED <<c2s, s2c, serverVars, mvars>>

(***************************************************************************)
(* tcp.py: the server                                                      *)
(***************************************************************************)

\* a connection is accepted whether or not a handler runs (a threaded server)
ServerFreeAlways == TRUE

\* serve_forever is between two requests: handle has returned, or was left
\* by an exception, and the connection it ran on was shut down
ServerFree == serving = NoSession

\* TcpServer (socketserver.TCPServer): the next connection is accepted when
\* no handler runs, and handle starts on it
Accept ==
    /\ ServerFree
    /\ backlog # <<>>
    /\ serving' = Head(backlog)
    /\ backlog' = Tail(backlog)
    /\ conn' = [conn EXCEPT ![Head(backlog)] = "serving"]
    /\ srvPayload' = <<>>
    /\ UNCHANGED <<clientVars, sessionVars, c2s, s2c, history, mvars>>

HandlerStays == UNCHANGED <<conn, serving, srvPayload, c2s>>

\* the exception takes the serving thread with it: the connection goes, and
\* nothing is accepted after it
HandlerCrashes ==
    /\ conn' = [conn EXCEPT ![serving] = "closed"]
    /\ c2s' = [c2s EXCEPT ![serving] = <<>>]
    /\ UNCHANGED <<serving, srvPayload>>

HandleOutcomeOneShot(served) == "leave"

\* handle after server.callback returned or raised: the while loop goes on,
\* or it is left
HandleOutcome(served) ==
    IF served.status \in {"ok", "None"} THEN "continue" ELSE "leave"

\* the last byte of a response is held back
ResponseSentInPart(served) ==
    IF served.status = "ok"
    THEN SubSeq(served.bytes, 1, Len(served.bytes) - 1)
    ELSE <<>>

\* a request the callback does not answer is answered with an empty payload
ResponseSentNoneMarked(served) ==
    CASE served.status = "ok" -> served.bytes
      [] served.status = "None" -> ResponseMarshall(<<>>).payload
      [] OTHER -> <<>>

\* "if response:", the bytes handle passes to sendall
ResponseSent(served) ==
    IF served.status = "ok" THEN served.bytes ELSE <<>>

\* handle is left, by break or by an exception, and the connection released
HandlerLeaves ==
    /\ conn' = [conn EXCEPT ![serving] = "closed"]
    /\ serving' = NoSession
    /\ srvPayload' = <<>>
    /\ c2s' = [c2s EXCEPT ![serving] = <<>>]

\* self.request.sendall(response): the bytes are lost when the peer is gone
Responded(c, response) ==
    IF sessionSocket[c] = "open" THEN s2c[c] \o response ELSE s2c[c]

\* _TcpServerRequestHandler.handle: one next() that returns a chunk, the step
\* of FixedLengthBytesMarshaller.unmarshall that takes it and, once the
\* request is complete, the rest of the iteration of the while loop
ServerRecv ==
    /\ serving # NoSession
    /\ c2s[serving] # <<>>
    /\ \E n \in 1..Min(BufferSize, Len(c2s[serving])) :
        LET more_bytes == SubSeq(c2s[serving], 1, n)
            payload == srvPayload \o more_bytes
            request == FixedResult(PayloadLength, payload, 0)
            served ==
                IF request.status = "ok"
                THEN ApplicationServerRespond(Service(payloadCallback),
                                              request.payload, 0)
                ELSE Served(request.status, <<>>, 0, 0, 0, <<>>)
        IN  IF ~FixedComplete(PayloadLength, payload)
            THEN /\ srvPayload' = payload
                 /\ c2s' = [c2s EXCEPT ![serving] = SubSeq(@, n + 1, Len(@))]
                 /\ UNCHANGED <<s2c, conn, serving, handled, written, raised>>
            ELSE /\ handled' = [handled EXCEPT ![serving] = @ \o served.delivered]
                 /\ written' = [written EXCEPT ![serving] = @ \o ResponseSent(served)]
                 /\ s2c' = [s2c EXCEPT ![serving] =
                        Responded(serving, ResponseSent(served))]
                 /\ IF HandleOutcome(served) = "continue"
                    THEN /\ srvPayload' = <<>>
                         /\ c2s' = [c2s EXCEPT ![serving] =
                                SubSeq(@, n + 1, Len(@))]
                         /\ UNCHANGED <<conn, serving, raised>>
                    ELSE /\ HandlerLeaves
                         /\ raised' = [raised EXCEPT ![serving] = served.status]
    /\ UNCHANGED <<clientVars, sessionVars, backlog, payloadCallback, mvars>>

\* next() on the server's socket reads no bytes: StopIteration, break
ServerEof ==
    /\ serving # NoSession
    /\ c2s[serving] = <<>>
    /\ sessionSocket[serving] = "closed"
    /\ HandlerLeaves
    /\ raised' = [raised EXCEPT ![serving] = "EndOfStream"]
    /\ UNCHANGED <<clientVars, sessionVars, s2c, backlog, mvars>>
    /\ UNCHANGED <<payloadCallback, handled, written>>

ClientStep(s) ==
    \/ Close(s)
    \/ Send(s)
    \/ SendReceive(s)
    \/ ClientRecv(s)
    \/ ClientEof(s)
    \/ ClientTimeout(s)

ServerStep == Accept \/ ServerRecv \/ ServerEof

Next ==
    \/ Connect
    \/ Enter
    \/ \E exception \in BOOLEAN : Exit(exception)
    \/ \E s \in Sessions : ClientStep(s)
    \/ ServerStep

Init == SInit /\ MQuiet

Spec == Init /\ [][Next]_vars

(***************************************************************************)
(* The marshallers as pure functions                                       *)
(***************************************************************************)

\* the service while the marshallers are applied
SQuiet ==
    /\ SInit
    /\ timeout = FALSE
    /\ payloadCallback = "reverse"

MInit ==
    /\ SQuiet
    /\ AQuiet
    /\ UQuiet
    /\ HQuiet
    /\ marshaller \in Marshallers
    /\ mPhase = "new"
    /\ mPayload = <<>>
    /\ mWire = NotCalled
    /\ mSource = <<>>
    /\ mOut = NotCalled

\* marshall(payload)
MMarshall ==
    /\ mPhase = "new"
    /\ \E p \in Payloads :
        /\ mPayload' = p
        /\ mWire' = Marshall(marshaller, p)
    /\ mPhase' = "marshalled"
    /\ UNCHANGED <<marshaller, mSource, mOut>>
    /\ UNCHANGED <<avars, uvars, hvars>>
    /\ UNCHANGED svars

\* the transport delivers the marshalled bytes in some chunking
MDeliver ==
    /\ mPhase = "marshalled"
    /\ mWire.status = "ok"
    /\ \E cs \in Splits(mWire.payload) : mSource' = cs
    /\ mPhase' = "ready"
    /\ UNCHANGED <<marshaller, mPayload, mWire, mOut>>
    /\ UNCHANGED <<avars, uvars, hvars>>
    /\ UNCHANGED svars

\* the transport delivers any chunks at all, then end-of-stream
MFeed ==
    /\ mPhase = "new"
    /\ \E cs \in Sources : mSource' = cs
    /\ mPhase' = "ready"
    /\ UNCHANGED <<marshaller, mPayload, mWire, mOut>>
    /\ UNCHANGED <<avars, uvars, hvars>>
    /\ UNCHANGED svars

\* unmarshall(bytes_iterator)
MUnmarshall ==
    /\ mPhase = "ready"
    /\ mOut' = Unmarshall(marshaller, mSource)
    /\ mPhase' = "done"
    /\ UNCHANGED <<marshaller, mPayload, mWire, mSource>>
    /\ UNCHANGED <<avars, uvars, hvars>>
    /\ UNCHANGED svars

MNext == MMarshall \/ MDeliver \/ MFeed \/ MUnmarshall

MarshallerSpec == MInit /\ [][MNext]_vars

(***************************************************************************)
(* The ApplicationServer as a function of its source                       *)
(***************************************************************************)

\* the ApplicationServers called: any fixed-length request unmarshaller or
\* the sentinel one of the fixtures, either response marshaller of the
\* fixtures, any callback
ApplicationServers ==
    {[request |-> q, response |-> r, callback |-> k] :
        q \in {m \in Marshallers : m.kind = "fixed"} \cup {Service("reverse").response},
        r \in {Service("reverse").request, Service("reverse").response},
        k \in CallbackKinds}

AInit ==
    /\ SQuiet
    /\ UQuiet
    /\ HQuiet
    /\ marshaller = [kind |-> "none", length |-> 0, sentinel |-> <<>>]
    /\ mPhase = "off"
    /\ mPayload = <<>>
    /\ mWire = NotCalled
    /\ mSource = <<>>
    /\ mOut = NotCalled
    /\ appServer \in ApplicationServers
    /\ aPhase = "new"
    /\ aSource = <<>>
    /\ aOut = NotServed

\* the transport binds a source of any chunks, then end-of-stream
AFeed ==
    /\ aPhase = "new"
    /\ \E cs \in Sources : aSource' = cs
    /\ aPhase' = "ready"
    /\ UNCHANGED <<appServer, aOut>>
    /\ UNCHANGED <<marshaller, mPhase, mPayload, mWire, mSource, mOut, uvars, hvars, svars>>

\* ApplicationServer.__call__(bytes_iterator)
ACall ==
    /\ aPhase = "ready"
    /\ aOut' = ApplicationServer(appServer, aSource)
    /\ aPhase' = "done"
    /\ UNCHANGED <<appServer, aSource>>
    /\ UNCHANGED <<marshaller, mPhase, mPayload, mWire, mSource, mOut, uvars, hvars, svars>>

ANext == AFeed \/ ACall

ApplicationSpec == AInit /\ [][ANext]_vars

(***************************************************************************)
(* An unmarshaller on the chunk source of a connection                     *)
(***************************************************************************)

\* the bytes the peer sends on a connection, at most
MaxStream == 4

\* the bytes stay in the socket and are handed out again
UnreadPeeked(wire, n) == wire

\* socket.recv(buffer_size) with n bytes to return: what it returns, and
\* what it leaves to the next recv
Recv(wire, n) == SubSeq(wire, 1, n)

Unread(wire, n) == SubSeq(wire, n + 1, Len(wire))

ExhaustedIgnored(wire, closed) == FALSE

\* recv returns b"": nothing is left and the peer has closed
Exhausted(wire, closed) == wire = <<>> /\ closed

\* the test that ends the loop of unmarshall
Complete(m, payload, more_bytes) ==
    IF m.kind = "fixed"
    THEN FixedComplete(m.length, payload)
    ELSE SentinelSeen(m.sentinel, payload, more_bytes)

\* what unmarshall comes to once its loop has ended
Result(m, payload, consumed) ==
    IF m.kind = "fixed"
    THEN FixedResult(m.length, payload, consumed)
    ELSE SentinelResult(m.sentinel, payload, consumed)

\* unmarshall has been called on a new _TcpBytestringIterator of a
\* connection on which nothing was sent yet
UInit ==
    /\ SQuiet
    /\ AQuiet
    /\ marshaller \in Marshallers
    /\ mPhase = "pulling"
    /\ mPayload = <<>>
    /\ mWire = NotCalled
    /\ mSource = <<>>
    /\ mOut = NotCalled
    /\ UQuiet
    /\ HQuiet

\* the peer sends a byte
UPeerSend ==
    /\ ~uClosed
    /\ Len(uSent) < MaxStream
    /\ \E b \in Byte :
        /\ uSent' = Append(uSent, b)
        /\ uWire' = Append(uWire, b)
    /\ UNCHANGED <<uClosed, uChunks, uPayload>>
    /\ UNCHANGED <<marshaller, mPhase, mPayload, mWire, mSource, mOut, avars, hvars, svars>>

\* the peer closes the connection
UPeerClose ==
    /\ ~uClosed
    /\ uClosed' = TRUE
    /\ UNCHANGED <<uSent, uWire, uChunks, uPayload>>
    /\ UNCHANGED <<marshaller, mPhase, mPayload, mWire, mSource, mOut, avars, hvars, svars>>

\* a next() of the unmarshall call that returns a chunk, the append to the
\* payload and the test of the loop
UNextChunk ==
    /\ mPhase = "pulling"
    /\ uWire # <<>>
    /\ \E n \in 1..Min(BufferSize, Len(uWire)) :
        LET more_bytes == Recv(uWire, n)
            payload == uPayload \o more_bytes
        IN  /\ uWire' = Unread(uWire, n)
            /\ uChunks' = Append(uChunks, more_bytes)
            /\ uPayload' = payload
            /\ IF Complete(marshaller, payload, more_bytes)
               THEN /\ mOut' = Result(marshaller, payload, Len(uChunks) + 1)
                    /\ mPhase' = "done"
               ELSE UNCHANGED <<mOut, mPhase>>
    /\ UNCHANGED <<uSent, uClosed>>
    /\ UNCHANGED <<marshaller, mPayload, mWire, mSource, avars, hvars, svars>>

\* a next() of the unmarshall call that raises StopIteration
UNextEof ==
    /\ mPhase = "pulling"
    /\ Exhausted(uWire, uClosed)
    /\ mOut' = EndOfStream(Len(uChunks))
    /\ mPhase' = "done"
    /\ UNCHANGED uvars
    /\ UNCHANGED <<marshaller, mPayload, mWire, mSource, avars, hvars, svars>>

UNext == UPeerSend \/ UPeerClose \/ UNextChunk \/ UNextEof

StreamSpec == UInit /\ [][UNext]_vars

\* a call that is running goes on running
FairStreamSpec == StreamSpec /\ WF_vars(UNextChunk \/ UNextEof)

(***************************************************************************)
(* handle on the chunk source of a connection                              *)
(***************************************************************************)

\* the callbacks of the servers handle is run with: those of the fixtures and
\* one that raises StopIteration
HandleCallbackKinds == CallbackKinds \cup {"stopping"}

\* the ApplicationServers handle is run with: either request unmarshaller,
\* the response marshaller of the fixtures, any callback
HandleServers ==
    {[request |-> q, response |-> Service("reverse").response, callback |-> k] :
        q \in {Service("reverse").request, Service("reverse").response},
        k \in HandleCallbackKinds}

\* every exception that leaves server.callback is reported
ReportedAll(status) == status

\* "except StopIteration: break": a StopIteration ends handle quietly, any
\* other exception leaves handle and is reported by the server
Reported(status) == IF status = "EndOfStream" THEN "none" ELSE status

\* handle has started on a connection on which nothing was sent yet
HInit ==
    /\ SQuiet
    /\ UQuiet
    /\ HQuiet
    /\ marshaller = [kind |-> "none", length |-> 0, sentinel |-> <<>>]
    /\ mPhase = "off"
    /\ mPayload = <<>>
    /\ mWire = NotCalled
    /\ mSource = <<>>
    /\ mOut = NotCalled
    /\ appServer \in HandleServers
    /\ aPhase = "serving"
    /\ aSource = <<>>
    /\ aOut = NotServed

\* handle: a next() that returns a chunk, the step of the request
\* unmarshaller that takes it and, once the request is complete, the rest of
\* the iteration of the while loop
HNextChunk ==
    /\ aPhase = "serving"
    /\ uWire # <<>>
    /\ \E n \in 1..Min(BufferSize, Len(uWire)) :
        LET more_bytes == Recv(uWire, n)
            payload == uPayload \o more_bytes
            request == Result(appServer.request, payload, 0)
            served ==
                IF request.status = "ok"
                THEN ApplicationServerRespond(appServer, request.payload, 0)
                ELSE Served(request.status, <<>>, 0, 0, 0, <<>>)
        IN  /\ uWire' = Unread(uWire, n)
            /\ uChunks' = Append(uChunks, more_bytes)
            /\ IF ~Complete(appServer.request, payload, more_bytes)
               THEN /\ uPayload' = payload
                    /\ UNCHANGED <<aPhase, aOut, hvars>>
               ELSE /\ uPayload' = <<>>
                    /\ aOut' = served
                    /\ hWritten' = hWritten \o ResponseSent(served)
                    /\ IF HandleOutcome(served) = "continue"
                       THEN UNCHANGED <<aPhase, hError>>
                       ELSE /\ aPhase' = "closed"
                            /\ hError' = Reported(served.status)
    /\ UNCHANGED <<uSent, uClosed, appServer, aSource>>
    /\ UNCHANGED <<marshaller, mPhase, mPayload, mWire, mSource, mOut, svars>>

\* handle: a next() that raises StopIteration, before a request or in the
\* middle of one
HNextEof ==
    /\ aPhase = "serving"
    /\ Exhausted(uWire, uClosed)
    /\ aOut' = Served("EndOfStream", <<>>, 0, 0, 0, <<>>)
    /\ uPayload' = <<>>
    /\ aPhase' = "closed"
    /\ hError' = Reported("EndOfStream")
    /\ UNCHANGED <<uSent, uWire, uClosed, uChunks, hWritten, appServer, aSource>>
    /\ UNCHANGED <<marshaller, mPhase, mPayload, mWire, mSource, mOut, svars>>

HNext == UPeerSend \/ UPeerClose \/ HNextChunk \/ HNextEof

HandleSpec == HInit /\ [][HNext]_vars

(***************************************************************************)
(* Properties of the marshallers (MarshallerSpec)                          *)
(***************************************************************************)

\* the bytes of the first k chunks of the source
Accumulated(source, k) == Concat(SubSeq(source, 1, k))

\* a payload was marshalled, its bytes delivered in some chunking and unmarshalled
RoundTripDone(kind) ==
    /\ marshaller.kind = kind
    /\ mPhase = "done"
    /\ mWire.status = "ok"

\* chunks were unmarshalled, whatever they are
UnmarshallDone(kind) ==
    /\ marshaller.kind = kind
    /\ mPhase = "done"

\* C1: for every length L >= 1 and payload p of length L, unmarshalling
\* marshall(p), delivered in any split into non-empty chunks, returns p.
C1_FixedRoundTrip ==
    RoundTripDone("fixed") =>
        /\ mOut.status = "ok"
        /\ mOut.payload = mPayload

\* C1 witness: a payload of two bytes came back from two chunks of one byte.
C1_Witness ==
    /\ RoundTripDone("fixed")
    /\ Len(mPayload) = 2
    /\ Len(mSource) = 2
    /\ mOut.payload = mPayload

\* C2: for every non-empty sentinel s and payload p not containing s,
\* unmarshalling marshall(p), delivered in any split into non-empty chunks,
\* returns p.
C2_SentinelRoundTrip ==
    (RoundTripDone("sentinel") /\ ~Contains(mPayload, marshaller.sentinel)) =>
        /\ mOut.status = "ok"
        /\ mOut.payload = mPayload

\* the chunks at which the accumulated bytes end with the sentinel
SentinelChunks(sentinel, source) ==
    {k \in 1..Len(source) : EndsWith(Accumulated(source, k), sentinel)}

Least(S) == CHOOSE k \in S : \A j \in S : k <= j

\* C3: unmarshall tests the sentinel against the accumulator: it returns after
\* the first chunk at which the accumulated bytes end with the sentinel, also
\* when the sentinel is split over chunks, and returns the accumulated bytes
\* without that sentinel suffix.
C3_SentinelOnAccumulator ==
    (UnmarshallDone("sentinel")
        /\ SentinelChunks(marshaller.sentinel, mSource) # {}) =>
        LET k == Least(SentinelChunks(marshaller.sentinel, mSource))
        IN  mOut = Returned(RemoveSuffix(Accumulated(mSource, k),
                                         marshaller.sentinel), k)

\* C9: marshall of the fixed-length marshaller raises LengthMismatch for every
\* payload whose length is not L, and returns a payload of length L unchanged.
C9_FixedMarshall ==
    (marshaller.kind = "fixed" /\ mWire.status # "none") =>
        IF Len(mPayload) # marshaller.length
        THEN mWire.status = "LengthMismatch"
        ELSE mWire = Returned(mPayload, 0)

\* C9 witness: a payload one byte too long was refused.
C9_Witness ==
    /\ marshaller.kind = "fixed"
    /\ Len(mPayload) = marshaller.length + 1
    /\ mWire.status = "LengthMismatch"

\* the chunks at which the accumulated length has reached the length
FixedChunks(length, source) ==
    {k \in 1..Len(source) : Len(Accumulated(source, k)) >= length}

\* C10: unmarshall of the fixed-length marshaller accumulates chunks until the
\* accumulated length is >= L; it raises LengthMismatch when that chunk
\* overshoots L and returns a payload only when the length is exactly L.
C10_FixedOvershoot ==
    UnmarshallDone("fixed") =>
        /\ (FixedChunks(marshaller.length, mSource) # {}) =>
            LET k == Least(FixedChunks(marshaller.length, mSource))
                acc == Accumulated(mSource, k)
            IN  IF Len(acc) > marshaller.length
                THEN mOut = LengthMismatch(k)
                ELSE mOut = Returned(acc, k)
        /\ (mOut.status = "ok") =>
            /\ Len(mOut.payload) = marshaller.length
            /\ mOut.payload = Accumulated(mSource, mOut.consumed)

\* C10 witness: the second chunk took the accumulated length past L.
C10_Witness ==
    /\ UnmarshallDone("fixed")
    /\ Len(mSource) >= 2
    /\ Len(Accumulated(mSource, 1)) < marshaller.length
    /\ Len(Accumulated(mSource, 2)) > marshaller.length
    /\ mOut.status = "LengthMismatch"

\* C11: unmarshall of the sentinel marshaller raises EndOfStream and returns no
\* payload whenever the source is exhausted before the sentinel was seen, be
\* the source empty or some bytes already accumulated.
C11_SentinelEndOfStream ==
    (UnmarshallDone("sentinel")
        /\ SentinelChunks(marshaller.sentinel, mSource) = {}) =>
        mOut = EndOfStream(Len(mSource))

\* C11 witness: two chunks were accumulated, none completes the sentinel, and
\* the source ended.
C11_Witness ==
    /\ UnmarshallDone("sentinel")
    /\ Len(mSource) = 2
    /\ SentinelChunks(marshaller.sentinel, mSource) = {}
    /\ mOut.status = "EndOfStream"

\* C12: unmarshall of the fixed-length marshaller raises EndOfStream and
\* returns no payload whenever the source is exhausted while fewer than L
\* bytes are accumulated.
C12_FixedEndOfStream ==
    (UnmarshallDone("fixed")
        /\ Len(Concat(mSource)) < marshaller.length) =>
        mOut = EndOfStream(Len(mSource))

\* C12 witness: one byte of two was accumulated when the source ended.
C12_Witness ==
    /\ UnmarshallDone("fixed")
    /\ Len(mSource) = 1
    /\ Len(Concat(mSource)) < marshaller.length
    /\ mOut.status = "EndOfStream"

\* the bytes of b before the first occurrence of the sentinel in it
BeforeSentinel(b, sentinel) ==
    LET at == {i \in 1..Len(b) : SubSeq(b, i, i + Len(sentinel) - 1) = sentinel}
    IN  IF at = {} THEN b ELSE SubSeq(b, 1, Least(at) - 1)

\* the chunks in which the sentinel first arrives, whole and followed by
\* more bytes of the same chunk
ExcessChunks(sentinel, source) ==
    {k \in 1..Len(source) :
        /\ Contains(source[k], sentinel)
        /\ ~Contains(Accumulated(source, k - 1), sentinel)
        /\ Len(BeforeSentinel(Accumulated(source, k), sentinel))
               >= Len(Accumulated(source, k - 1))
        /\ BeforeSentinel(Accumulated(source, k), sentinel) \o sentinel
               # Accumulated(source, k)}

\* C25: when bytes follow the sentinel in the chunk that brings it, unmarshall
\* of the sentinel marshaller returns after that chunk with the bytes before
\* the sentinel, and the bytes after it are in no payload.
C25_ExcessDiscarded ==
    (UnmarshallDone("sentinel")
        /\ ExcessChunks(marshaller.sentinel, mSource) # {}) =>
        LET k == Least(ExcessChunks(marshaller.sentinel, mSource))
        IN  mOut = Returned(BeforeSentinel(Accumulated(mSource, k),
                                           marshaller.sentinel), k)

\* the chunks that end with the sentinel
SentinelEnds(sentinel, source) ==
    {k \in 1..Len(source) : EndsWith(source[k], sentinel)}

\* C30: an unmarshall that returns, or raises LengthMismatch, has called
\* next() as many times as the index of the first chunk at which its test
\* held, a chunk that ends with the sentinel or one that takes the accumulated
\* length to L or beyond, and has pulled no chunk after it.
C30_StopsPulling ==
    /\ (UnmarshallDone("sentinel") /\ mOut.status = "ok") =>
            /\ SentinelEnds(marshaller.sentinel, mSource) # {}
            /\ mOut.consumed = Least(SentinelEnds(marshaller.sentinel, mSource))
    /\ (UnmarshallDone("fixed") /\ mOut.status \in {"ok", "LengthMismatch"}) =>
            /\ FixedChunks(marshaller.length, mSource) # {}
            /\ mOut.consumed = Least(FixedChunks(marshaller.length, mSource))

\* C30 witness: the fixed-length unmarshaller returned after the second chunk
\* of three.
C30_Witness ==
    /\ UnmarshallDone("fixed")
    /\ mOut.status = "ok"
    /\ mOut.consumed = 2
    /\ Len(mSource) = 3

(***************************************************************************)
(* Properties of the chunk source (StreamSpec, FairStreamSpec)             *)
(***************************************************************************)

\* C21: each next() that returns makes one read and hands out its bytes as one
\* chunk, non-empty and of at most the buffer size, taken from the head of
\* the unread bytes; chunks handed out are never changed afterwards, so the
\* chunks handed out, in order, followed by the unread bytes are the bytes
\* the peer sent, and the payload being accumulated is the chunks handed out.
C21_ChunkSource ==
    /\ [](/\ Concat(uChunks) \o uWire = uSent
          /\ \A i \in 1..Len(uChunks) : Len(uChunks[i]) \in 1..BufferSize
          /\ uPayload = Concat(uChunks))
    /\ [][uChunks' # uChunks =>
            /\ Len(uChunks') = Len(uChunks) + 1
            /\ SubSeq(uChunks', 1, Len(uChunks)) = uChunks
            /\ uWire = uChunks'[Len(uChunks')] \o uWire'
            /\ uSent' = uSent]_vars

\* C21 witness: a chunk of one byte and a chunk of two were handed out, and a
\* byte the peer sent is still unread.
C21_Witness ==
    /\ Len(uChunks) = 2
    /\ Len(uChunks[1]) = 1
    /\ Len(uChunks[2]) = 2
    /\ uWire # <<>>
    /\ Len(uSent) = 4

\* C23: once the peer has closed the connection, a running unmarshall of
\* either marshaller ends, after the bytes still unread, and it ends by
\* returning a payload or by raising LengthMismatch or EndOfStream.
C23_Terminates ==
    /\ uClosed ~> (mPhase = "done")
    /\ [](mPhase = "done" =>
            /\ mOut.status \in {"ok", "LengthMismatch", "EndOfStream"}
            /\ mOut = Unmarshall(marshaller, uChunks))

\* C23 witness: the peer closed before the payload was complete, and the call
\* that had accumulated two chunks raised EndOfStream.
C23_Witness ==
    /\ uClosed
    /\ mPhase = "done"
    /\ Len(uChunks) = 2
    /\ mOut.status = "EndOfStream"

(***************************************************************************)
(* Properties of the ApplicationServer (ApplicationSpec)                   *)
(***************************************************************************)

\* what the request unmarshaller makes of the source of the call
RequestOf(server, source) == Unmarshall(server.request, source)

\* the call was made and its source held a whole request
CallDone(status) ==
    /\ aPhase = "done"
    /\ RequestOf(appServer, aSource).status = status

\* C13: one call of the ApplicationServer unmarshalls exactly one request,
\* pulling no chunk beyond it, and invokes the callback exactly once with that
\* payload; when the callback returns a payload the call returns what the
\* response marshaller makes of it, and when the callback returns None the
\* call returns nothing and the response marshaller is not invoked.
C13_OneRequestOneCallback ==
    CallDone("ok") =>
        LET request == RequestOf(appServer, aSource)
            response == Callback(appServer.callback, request.payload)
        IN  /\ aOut.consumed = request.consumed
            /\ aOut.callbacks = 1
            /\ aOut.delivered = <<request.payload>>
            /\ response.status = "ok" =>
                    /\ aOut.marshalls = 1
                    /\ aOut.status = Marshall(appServer.response, response.payload).status
                    /\ aOut.bytes = Marshall(appServer.response, response.payload).payload
            /\ response.status = "None" =>
                    /\ aOut.marshalls = 0
                    /\ aOut.status = "None"
                    /\ aOut.bytes = <<>>

\* C13 witness: the callback returned None for a request that was unmarshalled
\* from the first chunks of a longer source.
C13_Witness ==
    /\ CallDone("ok")
    /\ aOut.status = "None"
    /\ aOut.consumed < Len(aSource)
    /\ aOut.delivered # <<>>

\* C14: when the request unmarshaller raises EndOfStream, the call raises it
\* too; neither the callback nor the response marshaller is invoked, and the
\* bytes accumulated so far are not delivered.
C14_EndOfStreamPropagates ==
    CallDone("EndOfStream") =>
        aOut = Served("EndOfStream", <<>>, Len(aSource), 0, 0, <<>>)

\* C14 witness: a fixed-length unmarshaller had accumulated a part of the
\* request when the source ended.
C14_Witness ==
    /\ CallDone("EndOfStream")
    /\ appServer.request.kind = "fixed"
    /\ aSource # <<>>
    /\ aOut.status = "EndOfStream"

\* C15: when the callback raises, the call raises the same failure: the
\* callback was invoked exactly once, the response marshaller was not
\* invoked and no response bytes were produced.
C15_CallbackFailurePropagates ==
    (CallDone("ok") /\ appServer.callback = "failing") =>
        /\ aOut.status = "CallbackError"
        /\ aOut.callbacks = 1
        /\ aOut.delivered = <<RequestOf(appServer, aSource).payload>>
        /\ aOut.marshalls = 0
        /\ aOut.bytes = <<>>

\* C15 witness: a request was unmarshalled and the callback raised.
C15_Witness ==
    /\ CallDone("ok")
    /\ appServer.callback = "failing"
    /\ aOut.status = "CallbackError"

(***************************************************************************)
(* Properties of handle (HandleSpec)                                       *)
(***************************************************************************)

\* next() raises StopIteration in this step of handle, before a request
\* (nothing is accumulated) or in the middle of one
ReadStops ==
    /\ aPhase = "serving"
    /\ Exhausted(uWire, uClosed)
    /\ aOut' # aOut \/ aPhase' # aPhase

\* the request this step of handle completes and hands to the callback
Completed == Result(appServer.request, uPayload \o uChunks'[Len(uChunks')], 0)

\* the callback raises StopIteration in this step of handle
CallbackStops ==
    /\ aPhase = "serving"
    /\ uChunks' # uChunks
    /\ uPayload' = <<>>
    /\ Completed.status = "ok"
    /\ appServer.callback = "stopping"
    /\ Completed.payload = <<>> \/ Completed.payload[1] # 65

\* C31: a StopIteration that leaves the application server call ends handle
\* in the same way wherever it comes from, an empty read before a request, an
\* empty read in the middle of a request, or the callback: the loop ends,
\* nothing is written for that request, the bytes accumulated are dropped
\* and no error is reported.
C31_StopIterationEndsLoop ==
    [][(ReadStops \/ CallbackStops) =>
            /\ aPhase' = "closed"
            /\ aOut'.status = "EndOfStream"
            /\ aOut'.bytes = <<>>
            /\ hWritten' = hWritten
            /\ uPayload' = <<>>
            /\ hError' = "none"
            /\ CallbackStops => aOut'.delivered = <<Completed.payload>>]_vars

\* C31 witness: handle answered a request, then the callback raised
\* StopIteration on the next one and the loop ended without an error, the
\* peer still connected.
C31_Witness ==
    /\ aPhase = "closed"
    /\ appServer.callback = "stopping"
    /\ aOut.status = "EndOfStream"
    /\ aOut.callbacks = 1
    /\ hWritten # <<>>
    /\ hError = "none"
    /\ ~uClosed

(***************************************************************************)
(* Properties of the reversal service (Spec, FairSpec)                     *)
(***************************************************************************)

\* the reversal server of the fixtures: the server thread runs serve_forever,
\* and a caller blocked in recv goes on when bytes or end-of-stream arrive
FairInit == Init /\ payloadCallback = "reverse"

FairSpec ==
    /\ FairInit
    /\ [][Next]_vars
    /\ WF_vars(ServerStep)
    /\ \A s \in Sessions : WF_vars(ClientRecv(s) \/ ClientEof(s))

\* the last call of session s returned a payload
ReturnedPayload(s) ==
    /\ call[s].pc = "idle"
    /\ call[s].out.status = "ok"

\* every call of session s so far was a send_receive that returned, and no
\* request contained the sentinel
InSequence(s) == strict[s] /\ sentinelFree[s]

\* C4: over any number of sequential send_receive calls on one open session
\* of the reversal server, with requests free of the sentinel, each call
\* returns the reversal of its own request and leaves no byte behind for the
\* next call, whatever chunks the transport delivers.
C4_SequentialCalls ==
    \A s \in Sessions :
        (InSequence(s) /\ ReturnedPayload(s)) =>
            /\ call[s].out.payload = Reverse(call[s].request)
            /\ c2s[s] = <<>>
            /\ s2c[s] = <<>>

\* C4 witness: after an earlier send_receive of the session had returned, the
\* next one returned the reversal of its own request.
C4_Witness ==
    \E s \in Sessions :
        /\ InSequence(s)
        /\ ReturnedPayload(s)
        /\ returned[s] = 2
        /\ call[s].out.payload = Reverse(call[s].request)
        /\ call[s].out.payload # call[s].request

\* the sessions opened before s and s itself are closed by the client
ClosedUpTo(s) == \A t \in 1..s : sessionSocket[t] = "closed"

\* C5: after a session was used and closed, a new session of the same client
\* is accepted and served by the reversal server: the server's loop on each closed connection ends,
\* a later connection is only handled once the earlier ones are released, and
\* a send_receive on the new session returns the reversal of its request.
C5_Reopen ==
    /\ [](\A s \in Sessions :
            conn[s] \in {"serving", "closed"} =>
                \A t \in 1..(s - 1) : conn[t] = "closed")
    /\ \A s \in Sessions : ClosedUpTo(s) ~> (conn[s] = "closed")
    /\ \A s \in Sessions :
            (/\ s > 1
             /\ ClosedUpTo(s - 1)
             /\ ~timeout
             /\ payloadCallback = "reverse"
             /\ InSequence(s)
             /\ call[s].pc = "receiving")
            ~> (/\ ReturnedPayload(s)
                /\ call[s].out.payload = Reverse(call[s].request))

\* C5 witness: the with block of the first session was left, the server's
\* loop on its connection has ended and the second session got its response.
C5_Witness ==
    /\ 1 \in exited
    /\ returned[1] > 0
    /\ sessionSocket[1] = "closed"
    /\ conn[1] = "closed"
    /\ InSequence(2)
    /\ ReturnedPayload(2)
    /\ call[2].out.payload = Reverse(call[2].request)

\* C6 as stated: on every session, over any sequence of send and send_receive
\* calls, at most one request is outstanding.
C6_NoPipelining ==
    \A s \in Sessions : requested[s] <= returned[s] + 1

\* C6 amended: on a session where every call so far was a send_receive that
\* returned, at most one request is outstanding.
C6_NoPipeliningSendReceive ==
    \A s \in Sessions : strict[s] => requested[s] <= returned[s] + 1

\* C6 witness: the second send_receive of a session waits for its response,
\* the first has returned.
C6_Witness ==
    \E s \in Sessions :
        /\ strict[s]
        /\ call[s].pc = "receiving"
        /\ requested[s] = 2
        /\ returned[s] = 1

IsSuffix(a, b) ==
    /\ Len(a) <= Len(b)
    /\ a = SubSeq(b, Len(b) - Len(a) + 1, Len(b))

\* C7: once a session is closed it stays closed, and every later send or
\* send_receive of a payload of the right length raises ConnectionError and
\* writes no byte to the connection.
C7_ClosedSession ==
    [][\A s \in Sessions :
          sessionSocket[s] = "closed" =>
              /\ sessionSocket'[s] = "closed"
              /\ IsSuffix(c2s'[s], c2s[s])
              /\ requested'[s] = requested[s]
              /\ (call'[s] # call[s] /\ Len(call'[s].request) = PayloadLength) =>
                     call'[s] = Idle(call'[s].request, ConnectionError)]_vars

\* C7 witness: a call on a closed session raised ConnectionError.
C7_Witness ==
    \E s \in Sessions :
        /\ sessionSocket[s] = "closed"
        /\ call[s].out = ConnectionError
        /\ c2s[s] = <<>>

\* the exceptions other than StopIteration that leave handle
Failures == {"LengthMismatch", "CallbackError"}

\* handle was running on connection c and this step ends it with exception e
Raises(c, e) == raised[c] = "none" /\ raised'[c] = e

\* C16: when the callback raises, or the request unmarshaller raises
\* LengthMismatch, while the server handles a connection, that connection is
\* closed without a response and the server is free for the next connection:
\* the connections waiting to be accepted stay queued and the others are
\* untouched.
C16_FailureReleasesServer ==
    [][\A c \in Sessions :
          (\E e \in Failures : Raises(c, e)) =>
              /\ serving = c
              /\ conn'[c] = "closed"
              /\ serving' = NoSession
              /\ backlog' = backlog
              /\ written'[c] = written[c]
              /\ \A d \in Sessions \ {c} : conn'[d] = conn[d]]_vars

\* C16 witness: the callback raised on the first connection, and the server
\* went on to accept the second and to hand its request to the callback.
C16_Witness ==
    /\ raised[1] = "CallbackError"
    /\ conn[1] = "closed"
    /\ handled[2] # <<>>

\* what the server of the fixtures writes for one request
Reply(kind, request) ==
    IF Callback(kind, request).status = "ok"
    THEN ResponseMarshall(Callback(kind, request).payload).payload
    ELSE <<>>

RECURSIVE Replies(_, _)
\* what it writes for a sequence of requests
Replies(kind, requests) ==
    IF requests = <<>>
    THEN <<>>
    ELSE Reply(kind, Head(requests)) \o Replies(kind, Tail(requests))

\* the handler completed a request on connection c in this step
Handles(c) == handled'[c] # handled[c]

\* C17: per connection, reads and writes are made only while handle runs on
\* it; a step hands at most one request to the application server; when
\* there is a response, all of its bytes are written in the step that
\* completed the request, after which the handler awaits the next request
\* with nothing accumulated; StopIteration closes the connection and
\* releases the server; a closed connection is neither read nor written.
C17_ConnectionLoop ==
    [][\A c \in Sessions :
          /\ (Handles(c) \/ written'[c] # written[c]) =>
                 /\ serving = c
                 /\ conn[c] = "serving"
                 /\ Len(handled'[c]) = Len(handled[c]) + 1
                 /\ SubSeq(handled'[c], 1, Len(handled[c])) = handled[c]
                 /\ written'[c] = written[c] \o
                        Reply(payloadCallback, handled'[c][Len(handled'[c])])
          /\ written'[c] # written[c] =>
                 /\ conn'[c] = "serving"
                 /\ serving' = c
                 /\ srvPayload' = <<>>
          /\ Raises(c, "EndOfStream") =>
                 /\ serving = c
                 /\ conn'[c] = "closed"
                 /\ serving' = NoSession
                 /\ written'[c] = written[c]
                 /\ ~Handles(c)
          /\ conn[c] = "closed" =>
                 /\ conn'[c] = "closed"
                 /\ serving' # c
                 /\ c2s'[c] = c2s[c]
                 /\ IsSuffix(s2c'[c], s2c[c])
                 /\ written'[c] = written[c]
                 /\ ~Handles(c)]_vars

\* C17 witness: the server answered two requests on a connection, then read
\* end-of-stream and closed it.
C17_Witness ==
    \E c \in Sessions :
        /\ Len(handled[c]) = 2
        /\ written[c] = Replies(payloadCallback, handled[c])
        /\ Len(written[c]) = 2 * (PayloadLength + 1)
        /\ raised[c] = "EndOfStream"
        /\ conn[c] = "closed"

C19_ResponsesOnly ==
    /\ [](\A c \in Sessions :
            /\ written[c] = Replies(payloadCallback, handled[c])
            /\ IsSuffix(s2c[c], written[c]))
    /\ [][\A c \in Sessions :
            (/\ Handles(c)
             /\ Callback(payloadCallback,
                         handled'[c][Len(handled'[c])]).status = "None")
                => /\ written'[c] = written[c]
                   /\ s2c'[c] = s2c[c]
                   /\ conn'[c] = "serving"
                   /\ serving' = c
                   /\ srvPayload' = <<>>]_vars

\* C19 witness: of two requests on a connection the callback left the first
\* unanswered, and the bytes written are the response to the second.
C19_Witness ==
    \E c \in Sessions :
        /\ Len(handled[c]) = 2
        /\ Callback(payloadCallback, handled[c][1]).status = "None"
        /\ written[c] = ResponseMarshall(Reverse(handled[c][2])).payload

\* C20: send writes the marshalled request with one request() call and
\* returns: in the step of the call the request is counted once, its bytes are
\* appended to what the client has written (or lost when the server has
\* closed the connection), nothing is read from the connection, and the call
\* is over; a send never waits, whether or not the server replies.
C20_SendReturns ==
    /\ [](\A s \in Sessions : op[s] = "send" => call[s].pc = "idle")
    /\ [][\A s \in Sessions :
            (op'[s] = "send" /\ requested'[s] # requested[s]) =>
                /\ call'[s] = Idle(call'[s].request, Sent)
                /\ requested'[s] = requested[s] + 1
                /\ c2s'[s] = Written(s, call'[s].request)
                /\ s2c' = s2c
                /\ returned' = returned]_vars

\* C20 witness: two sends returned on a session of a server that answers
\* neither, and nothing has been written back.
C20_Witness ==
    \E s \in Sessions :
        /\ op[s] = "send"
        /\ call[s] = Idle(call[s].request, Sent)
        /\ requested[s] = 2
        /\ payloadCallback = "failing"
        /\ written[s] = <<>>
        /\ conn[s] = "closed"

\* the call of session s that was reading its response ends in this step
Ends(s) == call[s].pc = "receiving" /\ call'[s].pc = "idle"

\* C22: a send_receive whose read times out raises a timeout error, which
\* is not EndOfStream: it ends so only on a client with a timeout, with no
\* payload, whatever was accumulated, and with nothing read; a call that ends with nothing to read
\* on a connection the server has not closed ends in no other way, and
\* EndOfStream is raised only on a connection the server has closed.
C22_TimeoutSurfaces ==
    [][\A s \in Sessions :
          Ends(s) =>
              /\ call'[s].out.status = "Timeout" =>
                     /\ timeout
                     /\ op[s] = "send_receive"
                     /\ call'[s].out.payload = <<>>
                     /\ s2c' = s2c
                     /\ returned' = returned
                     /\ sessionSocket' = sessionSocket
              /\ (s2c[s] = <<>> /\ conn[s] # "closed") =>
                     call'[s].out.status = "Timeout"
              /\ call'[s].out.status = "EndOfStream" =>
                     (s2c[s] = <<>> /\ conn[s] = "closed")]_vars

\* C22 witness: a send_receive that had accumulated a part of its response
\* timed out.
C22_Witness ==
    \E s \in Sessions :
        /\ call[s].pc = "idle"
        /\ call[s].out.status = "Timeout"
        /\ sessionSocket[s] = "open"
        /\ requested[s] = 1
        /\ returned[s] = 0
        /\ s2c[s] # <<>>
        /\ s2c[s] # written[s]

\* what belongs to session s: its socket, its call with the payload being
\* accumulated, the bytes on its connection in either direction, its counts
Local(s) ==
    <<sessionSocket[s], call[s], op[s], c2s[s], s2c[s], requested[s], returned[s]>>

\* C24: no step of any session, of the client or of the server changes what
\* belongs to two sessions, so that under every interleaving of the calls on
\* two open sessions a request, a response or a close on one leaves the
\* other's socket, bytes, payload and result as they were; and the payload a
\* call returns was written by the server to the connection of its session.
C24_NoSharedState ==
    /\ [][\A s, t \in Sessions :
            (s # t /\ Local(s)' # Local(s)) => Local(t)' = Local(t)]_vars
    /\ [](\A s \in Sessions :
            ReturnedPayload(s) =>
                Contains(written[s], call[s].out.payload \o Sentinel))

\* C24 witness: two sessions are open; the first got its response while the
\* request of the second is on its connection and its call is waiting.
C24_Witness ==
    /\ sessionSocket[1] = "open"
    /\ sessionSocket[2] = "open"
    /\ ReturnedPayload(1)
    /\ call[2].pc = "receiving"
    /\ c2s[2] # <<>>

\* C26: on a session of the reversal server whose first request was sent
\* with send and answered, the response stays on the connection, and the
\* send_receive that follows returns it, the reversal of the first request,
\* as the response to its own request.
C26_LeftoverResponse ==
    \A s \in Sessions :
        (/\ payloadCallback = "reverse"
         /\ ~timeout
         /\ sentinelFree[s]
         /\ op[s] = "send_receive"
         /\ requested[s] = 2
         /\ returned[s] = 1
         /\ ReturnedPayload(s))
            => /\ handled[s] # <<>>
               /\ call[s].out.payload = Reverse(handled[s][1])

\* a step of send or send_receive on session s; a call that repeats the one
\* before it, with the same outcome, leaves the record of the session as it
\* was, and a call that failed leaves the count of its requests as it was
Calls(s) ==
    /\ calls' = calls + 1
    /\ \/ call'[s] # call[s]
       \/ op'[s] # op[s]
       \/ requested'[s] # requested[s]
       \/ /\ call' = call
          /\ op' = op
          /\ requested' = requested
          /\ op[s] # "none"

\* C29: a send or send_receive whose payload the request marshaller refuses
\* ends with the marshaller's LengthMismatch, on an open session and on a
\* closed one; the step writes no byte and reads none, and leaves the socket
\* of the session as it was, ready for the next call.
C29_MarshallingFailsFirst ==
    [][\A s \in Sessions :
            (Calls(s) /\ Len(call'[s].request) # PayloadLength) =>
                /\ call'[s].pc = "idle"
                /\ call'[s].out.status = "LengthMismatch"
                /\ c2s' = c2s
                /\ s2c' = s2c
                /\ sessionSocket' = sessionSocket
                /\ conn' = conn
                /\ requested' = requested
                /\ returned' = returned]_vars

\* C29 witness: a call on a closed session was given a payload of the wrong
\* length and ended with LengthMismatch.
C29_Witness ==
    \E s \in Sessions :
        /\ sessionSocket[s] = "closed"
        /\ op[s] # "none"
        /\ Len(call[s].request) # PayloadLength
        /\ call[s].out.status = "LengthMismatch"
        /\ requested[s] = 0

\* the server reads from connection c in this step
Reads(c) == Len(c2s'[c]) < Len(c2s[c]) /\ conn[c] = "serving"

\* handle runs on one connection at most, the one the server is serving
OneAtATime ==
    \A c \in Sessions : conn[c] = "serving" <=> serving = c

\* C28 as stated: one connection is served at a time, and a request of a
\* later connection is handled only after the peer of every earlier
\* connection has closed its socket.
C28_AfterPeerCloses ==
    /\ []OneAtATime
    /\ [][\A c \in Sessions :
            Handles(c) =>
                \A d \in Sessions :
                    d < c => sessionSocket[d] = "closed"]_vars

\* C28: one connection is served at a time: only the connection the server
\* is serving is read and has requests handled, and a request of a later
\* connection is handled only after the loop of every earlier connection
\* has ended, because its peer closed or because an exception ended it.
C28_OneAtATime ==
    /\ []OneAtATime
    /\ [][\A c \in Sessions :
            /\ Reads(c) => serving = c
            /\ Handles(c) =>
                /\ serving = c
                /\ \A d \in Sessions :
                        d < c =>
                            /\ conn[d] = "closed"
                            /\ \/ sessionSocket[d] = "closed"
                               \/ raised[d] \in Failures]_vars

\* C28 witness: a request of the second connection was handled while the
\* socket of the first peer is open; an exception ended the first loop.
C28_Witness ==
    /\ handled[2] # <<>>
    /\ sessionSocket[1] = "open"
    /\ conn[1] = "closed"
    /\ raised[1] \in Failures

\* a step of __exit__: the innermost with block is left
Exits == Len(scopes') < Len(scopes)

\* a step of connect(), called directly or by __enter__: s is the new session
Connects(s) == sessionSocket[s] = "unborn" /\ sessionSocket'[s] # "unborn"

C32_CloseIdempotent ==
    /\ [](\A s \in Born :
            /\ TcpClose(sessionSocket[s]) = "closed"
            /\ TcpClose(TcpClose(sessionSocket[s])) = TcpClose(sessionSocket[s]))
    /\ [][\A s \in Sessions :
            sessionSocket[s] = "closed" =>
                /\ sessionSocket'[s] = "closed"
                /\ s2c'[s] = s2c[s]
                /\ IsSuffix(c2s'[s], c2s[s])]_vars
    /\ [][(/\ Exits
           /\ \/ appSession = NoSession
              \/ sessionSocket[appSession] = "closed") =>
                /\ sessionSocket' = sessionSocket
                /\ c2s' = c2s
                /\ s2c' = s2c]_vars

\* C32 witness: two with blocks of one client, one inside the other, were
\* left; the first __exit__ closed the session of the inner block, the second
\* found no session and closed nothing.
C32_Witness ==
    /\ scopes = <<>>
    /\ exited = Sessions
    /\ appSession = NoSession
    /\ sessionSocket[MaxSessions] = "closed"
    /\ \E s \in Sessions : sessionSocket[s] = "open"

\* C8: the session a with block was entered with is closed once the block is
\* left, on every exit path, and __exit__ suppresses no exception.
C8_ScopeCloses ==
    /\ \A s \in exited : sessionSocket[s] = "closed"
    /\ ~swallowed

=============================================================================
